---- MODULE Spec2Model ----
(***************************************************************************)
(* A model of the two media tools of rzauls/exif-tools:                    *)
(*   src/dedup.py  remove_duplicate_mov_files and its main()               *)
(*   src/sort.py   the metadata readers, process_directory and __main__    *)
(* File names are strings; os.path.splitext, str.lower, strptime and       *)
(* strftime are computed character by character.                           *)
(***************************************************************************)
EXTENDS Naturals, Integers, Sequences, FiniteSets, TLC

VARIABLES
    tool,               \* which script runs: "dedup", "sort" or "exif" (reader harness)
    argc,               \* len(sys.argv)
    path_kind,          \* what the path argument names: "dir", "file" or "missing"
    path_kind0,         \* path_kind when the process started
    pc,                 \* position of the process
    exit_status,        \* -1 while running, else the status the process ended with
    dir,                \* the directory's entries: name -> "file" | "dir"
    dir0,               \* dir when the current run of the scan started
    all_files,          \* the listing os.listdir returned, in its order
    idx,                \* number of entries of all_files the loop has handled
    image_base_names,   \* dedup: the set built by the first pass
    removed_count,      \* dedup
    skipped_count,      \* dedup
    run,                \* dedup: 1 for the first call of the function, 2 for the second
    failed,             \* dedup: names whose os.remove raised in the current run
    failed_before,      \* dedup: names whose os.remove raised in an earlier run
    removed_before,     \* dedup: removed_count of the earlier run
    target_subdir,      \* sort: the destination subdirectory's name
    dest,               \* sort: the destination's files: name -> content
    dest0,              \* sort: dest when the run started
    files_processed,    \* sort
    files_moved,        \* sort
    files_without_date, \* sort
    outcome,            \* sort: what the scan did with each listed entry
    rd_meta,            \* reader harness: what the libraries find in the file
    rd_result           \* reader harness: results of the readers on rd_meta

vars == <<tool, argc, path_kind, path_kind0, pc, exit_status, dir, dir0, all_files,
          idx, image_base_names, removed_count, skipped_count, run, failed,
          failed_before, removed_before, target_subdir, dest, dest0, files_processed, files_moved,
          files_without_date, outcome, rd_meta, rd_result>>

dedupVars == <<image_base_names, removed_count, skipped_count, run, failed,
               failed_before, removed_before>>
sortVars == <<target_subdir, dest, dest0, files_processed, files_moved,
              files_without_date, outcome>>
readerVars == <<rd_meta, rd_result>>

----------------------------------------------------------------------------
(* Bounds of the model *)

\* most entries a directory handed to the duplicate remover holds
MaxEntries == 3

\* most entries, beside the target, a directory handed to the renamer holds
MaxMedia == 2

----------------------------------------------------------------------------
(* Strings *)

CharAt(s, i) == SubSeq(s, i, i)

UpperChars == "ABCDEFGHIJKLMNOPQRSTUVWXYZ"
LowerChars == "abcdefghijklmnopqrstuvwxyz"

\* the lowercase of each uppercase letter
LowerMap ==
    [c \in {CharAt(UpperChars, i) : i \in 1..Len(UpperChars)} |->
        CharAt(LowerChars, CHOOSE i \in 1..Len(UpperChars) : CharAt(UpperChars, i) = c)]

\* str.lower() on one character
LowerChar(c) == IF c \in DOMAIN LowerMap THEN LowerMap[c] ELSE c

RECURSIVE lower(_)
\* str.lower()
lower(s) == IF Len(s) = 0 THEN "" ELSE LowerChar(CharAt(s, 1)) \o lower(SubSeq(s, 2, Len(s)))

\* str.endswith
endswith(s, suffix) ==
    Len(s) >= Len(suffix) /\ SubSeq(s, Len(s) - Len(suffix) + 1, Len(s)) = suffix

\* index of the last "." of a file name, 0 when there is none (str.rfind + 1)
LastDot(s) ==
    IF \E i \in 1..Len(s) : CharAt(s, i) = "."
    THEN CHOOSE i \in 1..Len(s) :
            CharAt(s, i) = "." /\ \A j \in (i+1)..Len(s) : CharAt(s, j) # "."
    ELSE 0

\* os.path.splitext on a name without separators: the last dot starts the
\* extension unless only dots precede it
SplitDot(s) ==
    LET d == LastDot(s) IN
    IF d > 0 /\ \E j \in 1..(d-1) : CharAt(s, j) # "." THEN d ELSE 0

splitext_root(s) == IF SplitDot(s) = 0 THEN s ELSE SubSeq(s, 1, SplitDot(s) - 1)
splitext_ext(s) == IF SplitDot(s) = 0 THEN "" ELSE SubSeq(s, SplitDot(s), Len(s))

\* all orders a set of names can be listed in
Orders(S) ==
    {q \in [1..Cardinality(S) -> S] : \A i, j \in 1..Cardinality(S) : q[i] = q[j] => i = j}

\* the functions from the subsets of N of at most k names into V
Dirs(N, V, k) ==
    UNION {[S -> V] : S \in {T \in SUBSET N : Cardinality(T) <= k}}

EmptyDir == [n \in {} |-> "file"]

----------------------------------------------------------------------------
(* src/dedup.py *)

image_extensions == {".jpg", ".jpeg", ".png", ".gif", ".bmp", ".tiff", ".webp", ".heic"}

\* names a directory handed to the duplicate remover may hold
DedupNames == {"A.JPG", "A.mov", "A.MOV", "a.mov", "B.x.heic", "B.mov", ".mov", "A.txt"}

\* the names among them that may be subdirectories
DedupDirNames == {"A.JPG", "B.mov"}

isdir(d, filename) == filename \in DOMAIN d /\ d[filename] = "dir"

\* the test with the extension compared as it is written
IsImageEntry_NoLower(d, filename) ==
    ~isdir(d, filename) /\ splitext_ext(filename) \in image_extensions

\* the test of the first pass on one listed entry (lines 28-36)
IsImageEntry(d, filename) ==
    ~isdir(d, filename) /\ lower(splitext_ext(filename)) \in image_extensions

\* the first pass over the listing (lines 21-38)
CollectImageBaseNames(listing, d) ==
    {splitext_root(listing[i]) : i \in {j \in 1..Len(listing) : IsImageEntry(d, listing[j])}}

\* the test of the second pass on one listed entry (lines 48-56)
IsMovEntry(d, filename) ==
    ~isdir(d, filename) /\ lower(splitext_ext(filename)) = ".mov"

\* line 59
HasMatchingImage(filename, names) == splitext_root(filename) \in names

\* a deletion that leaves the file
Remove_DryRun(d, filename) == d

\* line 62: os.remove(file_path) when it succeeds
Remove(d, filename) == [n \in DOMAIN d \ {filename} |-> d[n]]

\* main(), lines 74-94: usage check, directory check, confirmation prompt
DedupMain ==
    /\ tool = "dedup" /\ pc = "main"
    /\ IF argc # 2 \/ path_kind # "dir"
       THEN pc' = "exit" /\ exit_status' = 1
       ELSE \E confirmation \in {"y", "Y", "n"} :
              IF lower(confirmation) # "y"
              THEN pc' = "exit" /\ exit_status' = 0
              ELSE pc' = "call" /\ exit_status' = exit_status
    /\ UNCHANGED <<tool, argc, path_kind, path_kind0, dir, dir0, all_files, idx,
                   dedupVars, sortVars, readerVars>>

\* lines 15-42: the listing is taken once, the first pass runs over all of it
DedupFirstPass ==
    /\ tool = "dedup" /\ pc = "call"
    /\ \E listing \in Orders(DOMAIN dir) :
         /\ all_files' = listing
         /\ image_base_names' = CollectImageBaseNames(listing, dir)
    /\ dir0' = dir
    /\ idx' = 0
    /\ removed_count' = 0
    /\ skipped_count' = 0
    /\ failed' = {}
    /\ pc' = "pass2"
    /\ UNCHANGED <<tool, argc, path_kind, path_kind0, exit_status, dir, run,
                   failed_before, removed_before, sortVars, readerVars>>

\* lines 60-64: os.remove returned
OnRemoved(removed, skipped) ==
    [pc |-> "pass2", removed_count |-> removed + 1, skipped_count |-> skipped]

\* the exception of os.remove left uncaught
OnRemoveError_Uncaught(removed, skipped) ==
    [pc |-> "aborted", removed_count |-> removed, skipped_count |-> skipped]

\* lines 65-67: os.remove raised; the except clause counts the file as skipped
OnRemoveError(removed, skipped) ==
    [pc |-> "pass2", removed_count |-> removed, skipped_count |-> skipped + 1]

\* lines 44-70: one iteration of the second pass; os.remove succeeds, or raises
\* with the file still there ("denied"), or raises because the file is gone
DedupSecondPassStep ==
    /\ tool = "dedup" /\ pc = "pass2" /\ idx < Len(all_files)
    /\ LET filename == all_files[idx + 1] IN
       /\ idx' = idx + 1
       /\ IF ~IsMovEntry(dir, filename)
          THEN UNCHANGED <<pc, dir, removed_count, skipped_count, failed>>
          ELSE IF HasMatchingImage(filename, image_base_names)
          THEN \E result \in {"removed", "denied", "vanished"} :
                 LET after == IF result = "removed"
                              THEN OnRemoved(removed_count, skipped_count)
                              ELSE OnRemoveError(removed_count, skipped_count)
                 IN /\ dir' = IF result = "removed" THEN Remove(dir, filename)
                               ELSE IF result = "vanished"
                                    THEN [n \in DOMAIN dir \ {filename} |-> dir[n]]
                                    ELSE dir
                    /\ pc' = after.pc
                    /\ removed_count' = after.removed_count
                    /\ skipped_count' = after.skipped_count
                    /\ failed' = IF result = "removed" THEN failed
                                  ELSE failed \cup {filename}
          ELSE /\ skipped_count' = skipped_count + 1
               /\ UNCHANGED <<pc, dir, removed_count, failed>>
    /\ UNCHANGED <<tool, argc, path_kind, path_kind0, exit_status, dir0, all_files,
                   image_base_names, run, failed_before, removed_before, sortVars,
                   readerVars>>

\* line 72
DedupReturn ==
    /\ tool = "dedup" /\ pc = "pass2" /\ idx = Len(all_files)
    /\ pc' = "returned"
    /\ UNCHANGED <<tool, argc, path_kind, path_kind0, exit_status, dir, dir0, all_files,
                   idx, dedupVars, sortVars, readerVars>>

\* the function is called on the same directory a second time
DedupCallAgain ==
    /\ tool = "dedup" /\ pc = "returned" /\ run = 1
    /\ run' = 2
    /\ failed_before' = failed
    /\ removed_before' = removed_count
    /\ pc' = "call"
    /\ UNCHANGED <<tool, argc, path_kind, path_kind0, exit_status, dir, dir0, all_files,
                   idx, image_base_names, removed_count, skipped_count, failed,
                   sortVars, readerVars>>

\* lines 96-98: the summary is printed and the process ends
DedupExit ==
    /\ tool = "dedup" /\ pc = "returned"
    /\ pc' = "exit"
    /\ exit_status' = 0
    /\ UNCHANGED <<tool, argc, path_kind, path_kind0, dir, dir0, all_files, idx,
                   dedupVars, sortVars, readerVars>>

NoReader == [kind |-> "none"]

InitDedup ==
    /\ tool = "dedup"
    /\ argc \in {1, 2}
    /\ path_kind \in {"dir", "file", "missing"}
    /\ path_kind0 = path_kind
    /\ pc = "main"
    /\ exit_status = -1
    /\ dir \in (IF path_kind = "dir"
                THEN {d \in Dirs(DedupNames, {"file", "dir"}, MaxEntries) :
                        \A n \in DOMAIN d : d[n] = "dir" => n \in DedupDirNames}
                ELSE {EmptyDir})
    /\ dir0 = dir
    /\ all_files = <<>>
    /\ idx = 0
    /\ image_base_names = {}
    /\ removed_count = 0
    /\ skipped_count = 0
    /\ run = 1
    /\ failed = {}
    /\ failed_before = {}
    /\ removed_before = 0
    /\ target_subdir = ""
    /\ dest = EmptyDir
    /\ dest0 = EmptyDir
    /\ files_processed = 0
    /\ files_moved = 0
    /\ files_without_date = 0
    /\ outcome = EmptyDir
    /\ rd_meta = NoReader
    /\ rd_result = NoReader

NextDedup ==
    \/ DedupMain
    \/ DedupFirstPass
    \/ DedupSecondPassStep
    \/ DedupReturn
    \/ DedupCallAgain
    \/ DedupExit

SpecDedup == InitDedup /\ [][NextDedup]_vars

----------------------------------------------------------------------------
(* Claims about src/dedup.py, checked under SpecDedup *)

\* the non-directory entries of d whose lowercased extension is ".mov"
MovFiles(d) == {f \in DOMAIN d : d[f] = "file" /\ lower(splitext_ext(f)) = ".mov"}

\* the non-directory entries of d whose lowercased extension is an image extension
ImageFiles(d) ==
    {g \in DOMAIN d : d[g] = "file" /\ lower(splitext_ext(g)) \in image_extensions}

\* the videos of d that share their base name with an image of d
MatchedVideos(d) ==
    {f \in MovFiles(d) : \E g \in ImageFiles(d) : splitext_root(g) = splitext_root(f)}

\* the entries the second pass has handled
Handled == {all_files[i] : i \in 1..idx}

\* C1: when a run of remove_duplicate_mov_files returns and none of its deletions
\* failed, a '.mov' file of the listing is gone exactly when its base name is the
\* base name of an image file of the listing, every other entry is still there,
\* removed_count is the number of matched videos and skipped_count the number of
\* unmatched ones; this for every order of the listing.
C1_DeletedIffMatched ==
    (tool = "dedup" /\ pc = "returned" /\ failed = {}) =>
        /\ \A f \in MovFiles(dir0) : (f \notin DOMAIN dir) <=> (f \in MatchedVideos(dir0))
        /\ \A f \in DOMAIN dir0 \ MatchedVideos(dir0) : f \in DOMAIN dir /\ dir[f] = dir0[f]
        /\ removed_count = Cardinality(MatchedVideos(dir0))
        /\ skipped_count = Cardinality(MovFiles(dir0) \ MatchedVideos(dir0))

\* a run returned without a failed deletion, a video listed before its image was
\* deleted, and another video was kept
C1_Witness ==
    /\ tool = "dedup" /\ pc = "returned" /\ failed = {}
    /\ skipped_count >= 1
    /\ \E i, j \in 1..Len(all_files) :
         /\ i < j
         /\ all_files[i] \in MovFiles(dir0) /\ all_files[i] \notin DOMAIN dir
         /\ all_files[j] \in ImageFiles(dir0)
         /\ splitext_root(all_files[i]) = splitext_root(all_files[j])

C5_FailedDeletionIsSkipped ==
    (tool = "dedup") =>
        /\ pc # "aborted"
        /\ pc \in {"pass2", "returned"} =>
              /\ failed \subseteq Handled \cap MatchedVideos(dir0)
              /\ removed_count =
                    Cardinality((Handled \cap MatchedVideos(dir0)) \ failed)
              /\ skipped_count =
                    Cardinality((Handled \cap MovFiles(dir0)) \ MatchedVideos(dir0))
                    + Cardinality(failed)
        /\ pc = "returned" =>
              /\ idx = Len(all_files)
              /\ removed_count + skipped_count = Cardinality(MovFiles(dir0))

\* a deletion failed, a video listed after the failing one was still deleted, and
\* the run returned
C5_Witness ==
    /\ tool = "dedup" /\ pc = "returned"
    /\ \E i, j \in 1..Len(all_files) :
         /\ i < j
         /\ all_files[i] \in failed
         /\ all_files[j] \in MatchedVideos(dir0) \ failed
         /\ all_files[j] \notin DOMAIN dir

----------------------------------------------------------------------------
(* src/sort.py: the metadata readers *)

DigitChars == "0123456789"

\* the value of each decimal digit
DigitMap ==
    [c \in {CharAt(DigitChars, i) : i \in 1..Len(DigitChars)} |->
        (CHOOSE i \in 1..Len(DigitChars) : CharAt(DigitChars, i) = c) - 1]

IsDigit(c) == c \in DOMAIN DigitMap

\* a directive of strptime matched at position pos of s: at most `most` and at
\* least `least` digits, as many as are there
Field(s, pos, least, most) ==
    LET n == IF pos + 1 <= Len(s) /\ most >= 2 /\ IsDigit(CharAt(s, pos))
                  /\ IsDigit(CharAt(s, pos + 1))
             THEN (IF most = 4 /\ pos + 3 <= Len(s) /\ IsDigit(CharAt(s, pos + 2))
                       /\ IsDigit(CharAt(s, pos + 3)) THEN 4 ELSE 2)
             ELSE IF pos <= Len(s) /\ IsDigit(CharAt(s, pos)) THEN 1 ELSE 0
        val == IF n = 4 THEN 1000 * DigitMap[CharAt(s, pos)] + 100 * DigitMap[CharAt(s, pos + 1)]
                              + 10 * DigitMap[CharAt(s, pos + 2)] + DigitMap[CharAt(s, pos + 3)]
               ELSE IF n = 2 THEN 10 * DigitMap[CharAt(s, pos)] + DigitMap[CharAt(s, pos + 1)]
               ELSE IF n = 1 THEN DigitMap[CharAt(s, pos)] ELSE 0
    IN [ok |-> n >= least /\ n > 0, val |-> val, next |-> pos + n]

\* a literal character of the format at position pos
Literal(s, pos, c) == pos <= Len(s) /\ CharAt(s, pos) = c

RECURSIVE SkipSpaces(_, _)
\* the end of the run of spaces that starts at pos (the format's " " is \s+)
SkipSpaces(s, pos) ==
    IF pos <= Len(s) /\ CharAt(s, pos) = " " THEN SkipSpaces(s, pos + 1) ELSE pos

IsLeap(y) == (y % 4 = 0 /\ y % 100 # 0) \/ y % 400 = 0

DaysInMonth(y, m) ==
    IF m = 2 THEN (IF IsLeap(y) THEN 29 ELSE 28)
    ELSE IF m \in {4, 6, 9, 11} THEN 30 ELSE 31

NoDate == [kind |-> "none"]
Raised == [kind |-> "raised"]
Date(y, mo, d, h, mi, sec) ==
    [kind |-> "date", Y |-> y, M |-> mo, D |-> d, h |-> h, m |-> mi, s |-> sec]

\* datetime.datetime.strptime(s, "%Y:%m:%d %H:%M:%S"); NoDate stands for the
\* ValueError of a string that does not match or names no calendar date-time
strptime(s) ==
    LET y  == Field(s, 1, 4, 4)
        mo == Field(s, y.next + 1, 1, 2)
        d  == Field(s, mo.next + 1, 1, 2)
        sp == SkipSpaces(s, d.next)
        h  == Field(s, sp, 1, 2)
        mi == Field(s, h.next + 1, 1, 2)
        sec == Field(s, mi.next + 1, 1, 2)
    IN IF /\ y.ok /\ Literal(s, y.next, ":")
          /\ mo.ok /\ Literal(s, mo.next, ":")
          /\ d.ok /\ sp > d.next
          /\ h.ok /\ Literal(s, h.next, ":")
          /\ mi.ok /\ Literal(s, mi.next, ":")
          /\ sec.ok /\ sec.next = Len(s) + 1
          /\ y.val >= 1 /\ mo.val \in 1..12 /\ d.val >= 1
          /\ d.val <= DaysInMonth(y.val, mo.val)
          /\ h.val <= 23 /\ mi.val <= 59 /\ sec.val <= 59
       THEN Date(y.val, mo.val, d.val, h.val, mi.val, sec.val)
       ELSE NoDate

DigitChar(n) == CharAt(DigitChars, n + 1)

RECURSIVE Decimal(_)
\* the decimal digits of a number
Decimal(n) == IF n < 10 THEN DigitChar(n) ELSE Decimal(n \div 10) \o DigitChar(n % 10)

\* %m, %d, %H, %M, %S of strftime: two digits
TwoDigits(n) == DigitChar(n \div 10) \o DigitChar(n % 10)

\* format_filename, lines 92-94: dt.strftime("%Y%m%d_%H%M%S")
format_filename(dt) ==
    Decimal(dt.Y) \o TwoDigits(dt.M) \o TwoDigits(dt.D) \o "_"
        \o TwoDigits(dt.h) \o TwoDigits(dt.m) \o TwoDigits(dt.s)

\* a tag of the EXIF data: absent, or present with a string value
NoTag == [has |-> FALSE]
Tag(s) == [has |-> TRUE, value |-> s]

\* Python's truth of exif_data.get(tag): None and "" are false
Truthy(tag) == tag.has /\ tag.value # ""

\* lines 19-33: the primary path once Image.open and _getexif returned
PrimaryPath(dto, dt) ==
    LET date_taken == IF Truthy(dto) THEN dto ELSE dt
    IN IF ~Truthy(date_taken) THEN NoDate ELSE strptime(date_taken.value)

\* lines 38-50: the secondary path once piexif.load returned
PiexifPath(dto, dt) ==
    LET date_taken == IF dto.has THEN dto ELSE IF dt.has THEN dt ELSE NoTag
    IN IF Truthy(date_taken) THEN strptime(date_taken.value) ELSE NoDate

\* get_image_date_taken, lines 9-53. meta.open is what Image.open/_getexif do:
\* "ok", "caught" (an exception of line 35's classes) or "other" (any other
\* exception, which no handler of the function catches); meta.piexif is what
\* piexif.load does: "ok" or "raises"
get_image_date_taken(meta) ==
    IF meta.open = "ok" THEN PrimaryPath(meta.dto, meta.dt)
    ELSE IF meta.open = "other" THEN Raised
    ELSE IF meta.piexif = "ok" THEN PiexifPath(meta.dto, meta.dt)
    ELSE NoDate

date_fields == <<"creation_date", "date_time_original", "datetime_original">>

\* lines 67-73: the first field that the metadata has and that holds a datetime
FirstDatetimeField(fields) ==
    LET found == {i \in 1..Len(date_fields) : fields[date_fields[i]].kind = "date"}
    IN IF found = {} THEN NoDate
       ELSE fields[date_fields[CHOOSE i \in found : \A j \in found : i <= j]]

\* get_video_date_taken, lines 55-76. meta.parse is what hachoir does: "ok",
\* "no_parser", "no_metadata" or "raises" (any exception; line 75 catches it)
get_video_date_taken(meta) ==
    IF meta.parse = "ok" THEN FirstDatetimeField(meta.fields) ELSE NoDate

image_suffixes == {".jpg", ".jpeg", ".png", ".gif", ".bmp", ".tiff", ".webp"}
video_suffixes == {".mp4", ".mov", ".avi", ".mkv", ".wmv", ".flv", ".webm"}

HasSuffixIn(file_path, suffixes) ==
    \E ext \in suffixes : endswith(lower(file_path), ext)

\* get_media_date_taken, lines 78-90. content.image is what the image
\* libraries find in the file, content.video what hachoir finds in it
get_media_date_taken(file_path, content) ==
    IF HasSuffixIn(file_path, image_suffixes)
    THEN get_image_date_taken(content.image)
    ELSE IF HasSuffixIn(file_path, video_suffixes)
    THEN get_video_date_taken(content.video)
    ELSE NoDate

\* the values a date tag is read with
TagStrings ==
    {"2023:05:01 10:00:00", "2023:5:1 10:0:0", "2022:01:15 08:30:00",
     "2023-05-01 10:00:00", "2023:02:30 10:00:00", "2023:05:01 10:00:00Z", ""}

Tags == {NoTag} \cup {Tag(s) : s \in TagStrings}

ImageMetas ==
    [open : {"ok", "caught", "other"}, piexif : {"ok", "raises"}, dto : Tags, dt : Tags]

\* the values a field of the video metadata holds: no such attribute, a
\* datetime, or a value of another type
FieldValues ==
    {[kind |-> "absent"], [kind |-> "other"],
     Date(2023, 5, 1, 10, 0, 0), Date(2022, 1, 15, 8, 30, 0)}

NoFields ==
    [f \in {"creation_date", "date_time_original", "datetime_original"} |->
        [kind |-> "absent"]]

VideoMetas ==
    [parse : {"ok"}, fields : [{"creation_date", "date_time_original",
                               "datetime_original"} -> FieldValues]]
    \cup [parse : {"no_parser", "no_metadata", "raises"}, fields : {NoFields}]

\* a file neither library can read: both image readers raise, hachoir has no
\* parser for it
NoImage == [open |-> "caught", piexif |-> "raises", dto |-> NoTag, dt |-> NoTag]
NoVideo == [parse |-> "no_parser", fields |-> NoFields]

\* what the libraries find in a file: image metadata, or video metadata
FileContents ==
    [image : ImageMetas, video : {NoVideo}] \cup [image : {NoImage}, video : VideoMetas]

\* paths the readers are called with
ReaderPaths == {"p.JPG", "c.MP4", "n.txt", "noext"}

\* the readers applied to one file
ReadMedia ==
    /\ tool = "exif" /\ pc = "main"
    /\ rd_result' =
         [media |-> get_media_date_taken(rd_meta.path, rd_meta.content),
          primary |-> PrimaryPath(rd_meta.content.image.dto, rd_meta.content.image.dt),
          piexif |-> PiexifPath(rd_meta.content.image.dto, rd_meta.content.image.dt)]
    /\ pc' = "exit"
    /\ UNCHANGED <<tool, argc, path_kind, path_kind0, exit_status, dir, dir0, all_files,
                   idx, dedupVars, sortVars, rd_meta>>

InitExif ==
    /\ tool = "exif"
    /\ argc = 2
    /\ path_kind = "file"
    /\ path_kind0 = path_kind
    /\ pc = "main"
    /\ exit_status = -1
    /\ dir = EmptyDir
    /\ dir0 = dir
    /\ all_files = <<>>
    /\ idx = 0
    /\ image_base_names = {}
    /\ removed_count = 0
    /\ skipped_count = 0
    /\ run = 1
    /\ failed = {}
    /\ failed_before = {}
    /\ removed_before = 0
    /\ target_subdir = ""
    /\ dest = EmptyDir
    /\ dest0 = EmptyDir
    /\ files_processed = 0
    /\ files_moved = 0
    /\ files_without_date = 0
    /\ outcome = EmptyDir
    /\ rd_meta \in [path : ReaderPaths, content : FileContents]
    /\ rd_result = NoReader

NextExif == ReadMedia

SpecExif == InitExif /\ [][NextExif]_vars

----------------------------------------------------------------------------
(* Claims about the readers, checked under SpecExif *)

\* C8 as stated: whenever both decoding paths are given the same pair of tag
\* values (an empty DateTimeOriginal included), they return the same optional
\* timestamp.
C8_BothPathsAgree ==
    (tool = "exif" /\ pc = "exit") => rd_result.primary = rd_result.piexif

----------------------------------------------------------------------------
(* src/sort.py: process_directory and __main__ *)

\* names a directory handed to the renamer may hold, and what each may be
SortNames == {"p.JPG", "q.jpg", "r.jpg", "c.MP4", "n.txt", "sub"}
SortKinds(n) ==
    IF n = "sub" THEN {"dir"} ELSE IF n = "r.jpg" THEN {"file", "dir"} ELSE {"file"}

\* the files a destination directory may hold before the run
DestContents ==
    {[n \in S |-> "old"] :
        S \in {{}, {"20230501_100000.jpg"},
               {"20230501_100000.jpg", "20230501_100000_2.jpg"}}}

\* what the libraries find in the files of a scanned directory
ScanContents ==
    {c \in FileContents :
        \/ /\ c.image.open = "ok" /\ c.image.piexif = "ok"
           /\ <<c.image.dto, c.image.dt>> \in
                 {<<Tag("2023:05:01 10:00:00"), NoTag>>,
                  <<Tag(""), Tag("2023:5:1 10:0:0")>>,
                  <<Tag("2022:01:15 08:30:00"), Tag("2023:05:01 10:00:00")>>,
                  <<NoTag, NoTag>>,
                  <<Tag("2023-05-01 10:00:00"), NoTag>>}
        \/ /\ c.image.open = "caught" /\ c.image.piexif = "ok"
           /\ <<c.image.dto, c.image.dt>> = <<NoTag, Tag("2023:05:01 10:00:00")>>
        \/ /\ c.image.open = "other" /\ c.image.piexif = "ok"
           /\ <<c.image.dto, c.image.dt>> = <<NoTag, NoTag>>
        \/ c.image = NoImage /\ c.video.parse # "ok"
        \/ /\ c.image = NoImage
           /\ c.video.fields["creation_date"] \in
                 {Date(2023, 5, 1, 10, 0, 0), [kind |-> "other"]}
           /\ c.video.fields["date_time_original"] = Date(2022, 1, 15, 8, 30, 0)
           /\ c.video.fields["datetime_original"] = [kind |-> "absent"]}

\* the skip test without os.path.isdir
IsSkipped_NoIsdir(d, filename, target) == filename = target

\* line 113: directories and the entry named like the target are skipped
IsSkipped(d, filename, target) == isdir(d, filename) \/ filename = target

\* lines 127 and 133: the name tried first (counter 0) and the names tried after it
CandidateName(stem, ext, counter) ==
    IF counter = 0 THEN stem \o ext ELSE stem \o "_" \o Decimal(counter) \o ext

RECURSIVE FirstFreeCounter(_, _, _, _)
\* lines 131-135: the loop that runs while os.path.exists(target_path)
FirstFreeCounter(existing, stem, ext, counter) ==
    IF CandidateName(stem, ext, counter) \in existing
    THEN FirstFreeCounter(existing, stem, ext, counter + 1)
    ELSE counter

\* the name without the loop over existing paths
new_filename_NoExistsCheck(existing, filename, date_taken) ==
    format_filename(date_taken) \o lower(splitext_ext(filename))

\* the name with the extension as it is written
new_filename_KeepsCase(existing, filename, date_taken) ==
    LET stem == format_filename(date_taken)
        ext == splitext_ext(filename)
    IN CandidateName(stem, ext, FirstFreeCounter(existing, stem, ext, 0))

\* lines 124-135: the name the file is moved to
new_filename(existing, filename, date_taken) ==
    LET stem == format_filename(date_taken)
        ext == lower(splitext_ext(filename))
    IN CandidateName(stem, ext, FirstFreeCounter(existing, stem, ext, 0))

\* the paths os.path.exists finds under target_dir
ExistingIn(d, target, files) ==
    IF target \in DOMAIN d /\ d[target] = "dir" THEN DOMAIN files ELSE {}

\* line 138, shutil.move onto target_path
Move(files, name, content) ==
    [n \in DOMAIN files \cup {name} |-> IF n = name THEN content ELSE files[n]]

Put(f, k, v) == [x \in DOMAIN f \cup {k} |-> IF x = k THEN v ELSE f[x]]

\* __main__, lines 151-160, called with at most the source directory, so
\* that target_subdir is its default
SortMain ==
    /\ tool = "sort" /\ pc = "main"
    /\ IF argc > 1
       THEN pc' = "call" /\ exit_status' = exit_status
       ELSE pc' = "exit" /\ exit_status' = 0
    /\ UNCHANGED <<tool, argc, path_kind, path_kind0, dir, dir0, all_files, idx,
                   dedupVars, sortVars, readerVars>>

\* lines 99-109: the target directory is made when nothing exists at its path
\* (os.makedirs makes the missing source directory with it, and raises when
\* the source path is a file), then the source directory is listed
SortStart ==
    /\ tool = "sort" /\ pc = "call"
    /\ IF path_kind = "file"
       THEN /\ pc' = "makedirs_raised" /\ exit_status' = 1
            /\ UNCHANGED <<path_kind, dir, all_files>>
       ELSE /\ path_kind' = "dir"
            /\ dir' = IF target_subdir \in DOMAIN dir THEN dir
                      ELSE Put(dir, target_subdir, "dir")
            /\ \E listing \in Orders(DOMAIN dir') : all_files' = listing
            /\ pc' = "loop" /\ exit_status' = exit_status
    /\ idx' = 0
    /\ UNCHANGED <<tool, argc, path_kind0, dir0, dedupVars, sortVars, readerVars>>

\* lines 109-143: one iteration of the loop over the listing
SortStep ==
    /\ tool = "sort" /\ pc = "loop" /\ idx < Len(all_files)
    /\ idx' = idx + 1
    /\ \E filename \in {all_files[idx + 1]} :
       IF IsSkipped(dir, filename, target_subdir)
       THEN UNCHANGED <<pc, exit_status, dir, dest, files_processed, files_moved,
                        files_without_date, outcome>>
       ELSE
         /\ files_processed' = files_processed + 1
         /\ \E date_taken \in {get_media_date_taken(filename, content) :
                                    content \in ScanContents} :
              IF date_taken.kind = "raised"
              THEN /\ pc' = "reader_raised" /\ exit_status' = 1
                   /\ outcome' = Put(outcome, filename, [kind |-> "raised"])
                   /\ UNCHANGED <<dir, dest, files_moved, files_without_date>>
              ELSE IF date_taken.kind = "date"
              THEN \E name \in {new_filename(ExistingIn(dir, target_subdir, dest),
                                             filename, date_taken)} :
                      IF dir[target_subdir] = "dir"
                      THEN /\ dest' = Move(dest, name, filename)
                           /\ dir' = Remove(dir, filename)
                           /\ files_moved' = files_moved + 1
                           /\ outcome' = Put(outcome, filename,
                                             [kind |-> "moved", date |-> date_taken,
                                              name |-> name])
                           /\ UNCHANGED <<pc, exit_status, files_without_date>>
                      ELSE /\ pc' = "move_raised" /\ exit_status' = 1
                           /\ outcome' = Put(outcome, filename,
                                             [kind |-> "move_raised", date |-> date_taken])
                           /\ UNCHANGED <<dir, dest, files_moved, files_without_date>>
              ELSE /\ files_without_date' = files_without_date + 1
                   /\ outcome' = Put(outcome, filename, [kind |-> "nodate"])
                   /\ UNCHANGED <<pc, exit_status, dir, dest, files_moved>>
    /\ UNCHANGED <<tool, argc, path_kind, path_kind0, dir0, all_files, dedupVars,
                   target_subdir, dest0, readerVars>>

\* lines 145-149: the summary is printed and the process ends
SortFinish ==
    /\ tool = "sort" /\ pc = "loop" /\ idx = Len(all_files)
    /\ pc' = "finished"
    /\ exit_status' = 0
    /\ UNCHANGED <<tool, argc, path_kind, path_kind0, dir, dir0, all_files, idx,
                   dedupVars, sortVars, readerVars>>

\* the directories the renamer may start in: a source directory, and at the
\* target's path nothing, a file, or a directory holding files
InitSort ==
    /\ tool = "sort"
    /\ argc \in {1, 2}
    /\ target_subdir = "dated_media"
    /\ path_kind \in {"dir", "file", "missing"}
    /\ path_kind0 = path_kind
    /\ pc = "main"
    /\ exit_status = -1
    /\ \E source \in {d \in Dirs(SortNames, {"file", "dir"}, MaxMedia) :
                        \A n \in DOMAIN d : d[n] \in SortKinds(n)},
          target \in {"missing", "file", "dir"} :
         /\ dir = IF path_kind # "dir" THEN EmptyDir
                  ELSE IF target = "missing" THEN source
                  ELSE Put(source, target_subdir, target)
         /\ dest \in (IF path_kind = "dir" /\ target = "dir"
                      THEN DestContents
                      ELSE {EmptyDir})
    /\ dest0 = dest
    /\ dir0 = dir
    /\ all_files = <<>>
    /\ idx = 0
    /\ image_base_names = {}
    /\ removed_count = 0
    /\ skipped_count = 0
    /\ run = 1
    /\ failed = {}
    /\ failed_before = {}
    /\ removed_before = 0
    /\ files_processed = 0
    /\ files_moved = 0
    /\ files_without_date = 0
    /\ outcome = EmptyDir
    /\ rd_meta = NoReader
    /\ rd_result = NoReader

NextSort ==
    \/ SortMain
    \/ SortStart
    \/ SortStep
    \/ SortFinish

SpecSort == InitSort /\ [][NextSort]_vars

\* either tool, started from its command line
Init == InitDedup \/ InitSort

Next == NextDedup \/ NextSort

Spec == Init /\ [][Next]_vars

----------------------------------------------------------------------------
(* Claims about process_directory, checked under SpecSort *)

\* the non-directory entries of a directory
Files(d) == {n \in DOMAIN d : d[n] = "file"}

\* the files the scan has moved
Moved == {f \in DOMAIN outcome : outcome[f].kind = "moved"}

\* format(T) and the lowercased extension of a moved file
StemOf(f) == format_filename(outcome[f].date)
ExtOf(f) == lower(splitext_ext(f))

\* the moved files that map to the formatted timestamp and extension of f, and
\* the names they were given
Group(f) == {g \in Moved : StemOf(g) = StemOf(f) /\ ExtOf(g) = ExtOf(f)}
GroupNames(f) == {outcome[g].name : g \in Group(f)}

\* format(T) + ext for k = 0, format(T)_k + ext for k > 0
SuffixedName(f, k) ==
    IF k = 0 THEN StemOf(f) \o ExtOf(f)
    ELSE StemOf(f) \o "_" \o Decimal(k) \o ExtOf(f)

\* C2 as stated: after a completed scan every file with a timestamp is in the
\* destination, and the N files that map to one formatted timestamp and
\* extension hold the bare name and the suffixes _1 .. _{N-1}.
C2_CollidingFilesGetBareAnd1ToN ==
    (tool = "sort" /\ pc = "finished") =>
        \A f \in Moved :
            /\ f \notin DOMAIN dir
            /\ outcome[f].name \in DOMAIN dest /\ dest[outcome[f].name] = f
            /\ GroupNames(f) = {SuffixedName(f, k) : k \in 0..(Cardinality(Group(f)) - 1)}

\* C2 amended: every file that the scan moves is in the destination under
\* format(T) + lowercased extension or that name with a suffix _k; the N files
\* of a run that map to one formatted timestamp and extension get N distinct
\* names, the first N of bare, _1, _2, ... that the destination did not hold
\* before the run (bare, _1 .. _{N-1} when it held none of them); and a file with
\* a timestamp is moved whenever the target path is a directory.
C2_MovedFilesGetFirstFreeNames ==
    (tool = "sort") =>
        /\ \A f \in DOMAIN outcome :
              outcome[f].kind = "move_raised" => dir[target_subdir] # "dir"
        /\ \A f \in Moved :
            LET G == GroupNames(f)
                N == Cardinality(Group(f))
                B == N + Cardinality(DOMAIN dest0)
            IN /\ f \notin DOMAIN dir
               /\ outcome[f].name \in DOMAIN dest /\ dest[outcome[f].name] = f
               /\ Cardinality(G) = N
               /\ G \cap DOMAIN dest0 = {}
               /\ G \subseteq {SuffixedName(f, k) : k \in 0..B}
               /\ \A k \in 0..B :
                     SuffixedName(f, k) \in G =>
                        \A j \in 0..(k - 1) : SuffixedName(f, j) \in G \cup DOMAIN dest0
               /\ (\A k \in 0..B : SuffixedName(f, k) \notin DOMAIN dest0) =>
                     G = {SuffixedName(f, k) : k \in 0..(N - 1)}

\* a scan completed in which two files with the same formatted timestamp and
\* extension met a destination that held the bare name and _2, and were named
\* _1 and _3
C2_Witness ==
    /\ tool = "sort" /\ pc = "finished"
    /\ \E f \in Moved :
         /\ Cardinality(Group(f)) = 2
         /\ {SuffixedName(f, 0), SuffixedName(f, 2)} \subseteq DOMAIN dest0
         /\ GroupNames(f) = {SuffixedName(f, 1), SuffixedName(f, 3)}

\* the process has ended
Terminated == pc \in {"finished", "reader_raised", "move_raised", "makedirs_raised", "exit"}

\* the listed files whose timestamp cannot be determined: those with neither an
\* image nor a video suffix, and those whose reader returned None
Undated ==
    {f \in Files(dir0) \ {target_subdir} :
        \/ ~HasSuffixIn(f, image_suffixes \cup video_suffixes)
        \/ (f \in DOMAIN outcome /\ outcome[f].kind = "nodate")}

\* C3: when process_directory has ended, every file of the source directory
\* whose timestamp cannot be determined is still at its path, has been counted
\* once in files_without_date, and has no entry in the destination.
C3_UndatedFilesStayAndAreCounted ==
    (tool = "sort" /\ argc > 1 /\ path_kind0 = "dir" /\ Terminated) =>
        /\ \A f \in Undated :
              /\ f \in DOMAIN dir /\ dir[f] = "file"
              /\ f \in DOMAIN outcome /\ outcome[f].kind = "nodate"
              /\ \A n \in DOMAIN dest : dest[n] # f
        /\ files_without_date = Cardinality(Undated)

\* C6: no failure of a metadata reader reaches process_directory: the scan never
\* ends on an exception of get_media_date_taken.
C6_ReaderFailureIsNoTimestamp ==
    (tool = "sort") =>
        /\ pc # "reader_raised"
        /\ \A f \in DOMAIN outcome : outcome[f].kind # "raised"

\* C9: no file that the destination held before the run is replaced or removed,
\* every file of the source is either still in the source or exactly once in
\* the destination, and the number of files in source and destination together
\* does not change.
C9_NothingOverwrittenOrLost ==
    (tool = "sort") =>
        /\ \A n \in DOMAIN dest0 : n \in DOMAIN dest /\ dest[n] = dest0[n]
        /\ \A f \in Files(dir0) :
              IF f \in DOMAIN dir
              THEN dir[f] = "file" /\ \A n \in DOMAIN dest : dest[n] # f
              ELSE Cardinality({n \in DOMAIN dest : dest[n] = f}) = 1
        /\ Cardinality(Files(dir)) + Cardinality(DOMAIN dest)
              = Cardinality(Files(dir0)) + Cardinality(DOMAIN dest0)

\* a scan completed that moved a file whose bare name the destination already held
C9_Witness ==
    /\ tool = "sort" /\ pc = "finished"
    /\ \E f \in Moved : SuffixedName(f, 0) \in DOMAIN dest0

\* what a listed entry was when the listing was taken (the target made by
\* os.makedirs is a directory)
ListedKind(f) == IF f \in DOMAIN dir0 THEN dir0[f] ELSE "dir"

\* the entries the loop has handled, and those of them that it counts
Scanned == {all_files[i] : i \in 1..idx}
Countable(S) == {f \in S : ListedKind(f) = "file" /\ f # target_subdir}

\* C10: between iterations and after the scan files_processed is files_moved +
\* files_without_date and the number of handled entries that are neither
\* directories nor named like the target; after the scan that is all such
\* entries of the listing; directories are never counted, moved or handled.
C10_CountersAddUp ==
    (tool = "sort" /\ pc \in {"loop", "finished"}) =>
        /\ files_processed = files_moved + files_without_date
        /\ files_processed = Cardinality(Countable(Scanned))
        /\ files_moved = Cardinality(Moved)
        /\ DOMAIN outcome = Countable(Scanned)
        /\ pc = "finished" =>
              files_processed = Cardinality(Countable({all_files[i] : i \in 1..Len(all_files)}))
        /\ \A f \in Scanned :
              ListedKind(f) = "dir" => f \in DOMAIN dir /\ dir[f] = "dir"

\* a scan completed that moved a file, left one without a date in place and
\* passed over the target directory
C10_Witness ==
    /\ tool = "sort" /\ pc = "finished"
    /\ files_moved >= 1 /\ files_without_date >= 1
    /\ target_subdir \in Scanned

----------------------------------------------------------------------------
(* Claims about both tools, checked under Spec *)

\* C7: a process started on a path that is not an existing directory makes no
\* directory, deletes and moves nothing, and does not end with status 0.
C7_InvalidPathExitsNonZeroUnchanged ==
    (argc > 1 /\ path_kind0 # "dir") =>
        /\ path_kind = path_kind0
        /\ dir = EmptyDir
        /\ exit_status # 0

====
